---- MODULE Spec2Model ----
(***************************************************************************)
(* zapp-backend: the drafts of one small Express server.  Each draft is a  *)
(* deployment of one source file:                                          *)
(*   "index"      src/index.js          (Firebase token, then server JWT)  *)
(*   "part002"    src/unnamed/part_002  (server JWT, then Firebase token)  *)
(*   "backend"    src/backend/index.js  (Firebase token only)              *)
(*   "part000"    src/unnamed/part_000  (Firebase token only)              *)
(*   "part001"    src/unnamed/part_001  (Firebase token only)              *)
(*   "dockerfile" src/Dockerfile        (Firebase token only)              *)
(* A request runs as the segments of its async handler between two awaits; *)
(* one action is one segment (Node runs a segment without interruption).   *)
(* Strings the code inspects by character are tuples of one-character      *)
(* strings.  Numbers are fixed-point integers at scale Scale.              *)
(***************************************************************************)
EXTENDS Integers, Sequences, FiniteSets, TLC

VARIABLES
    draft,        \* which source file is deployed
    JWT_SECRET,   \* process.env.JWT_SECRET: "" (unset), "short" (1..15 chars), "long" (>= 16)
    PROJECT_ID,   \* the configured project id ("" when unset)
    req,          \* slot -> the HTTP request received (route, header, body)
    pc,           \* slot -> the await point the handler stands at
    loc,          \* slot -> the handler's local variables and req.user
    res,          \* slot -> the response sent
    calls,        \* slot -> the collaborator calls the request has made, in order
    userEmails,   \* src/index.js  userEmails/{email}: set of [email, uid, ver]
    users,        \* src/index.js  users/{uid}: set of [uid, email, passwordHash]
    auth_users,   \* part_002      auth_users/{uid}: set of [uid, email, passwordHash]
    orders,       \* users/{uid}/orders: set of stored order documents
    nextId,       \* the next auto-generated document id / uuid
    clock         \* the persistence layer's commit clock (server timestamp)

vars == <<draft, JWT_SECRET, PROJECT_ID, req, pc, loc, res, calls,
          userEmails, users, auth_users, orders, nextId, clock>>

\* ------------------------------------------------------------------ bounds

AuthReqs == 2      \* requests of the authentication workload
OrderReqs == 2     \* requests of the orders workload
AccountReqs == 2   \* requests of the signup/login workload
HistoryReqs == 2   \* requests of the history workload
MaxItems == 2      \* elements of a submitted items array

Largest(S) == CHOOSE n \in S : \A m \in S : m <= n
Slots == 1..Largest({AuthReqs, OrderReqs, AccountReqs, HistoryReqs})

\* ------------------------------------------------------------------ strings

Whitespace == {" ", "\t"}

LowerChar(c) ==
    CASE c = "A" -> "a" [] c = "B" -> "b" [] c = "E" -> "e" [] c = "R" -> "r"
      [] c = "L" -> "l" [] c = "T" -> "t" [] OTHER -> c

\* String.prototype.toLowerCase
ToLowerCase(s) == [i \in 1..Len(s) |-> LowerChar(s[i])]

RECURSIVE TrimStart(_)
TrimStart(s) ==
    IF s # <<>> /\ Head(s) \in Whitespace THEN TrimStart(Tail(s)) ELSE s

RECURSIVE TrimEnd(_)
TrimEnd(s) ==
    IF s # <<>> /\ s[Len(s)] \in Whitespace
    THEN TrimEnd(SubSeq(s, 1, Len(s) - 1)) ELSE s

\* String.prototype.trim
Trim(s) == TrimEnd(TrimStart(s))

\* the number of whitespace characters of s from position i on
RECURSIVE WsRun(_, _)
WsRun(s, i) ==
    IF i <= Len(s) /\ s[i] \in Whitespace THEN 1 + WsRun(s, i + 1) ELSE 0

Bearer == <<"B", "e", "a", "r", "e", "r">>
NoMatch == [matched |-> FALSE, token |-> <<>>]

\* a pattern that forgets the separator: /^Bearer(.+)$/
parseBearerNoSeparator(h) ==
    IF Len(h) >= Len(Bearer) + 1 /\ SubSeq(h, 1, Len(Bearer)) = Bearer
    THEN [matched |-> TRUE, token |-> SubSeq(h, Len(Bearer) + 1, Len(h))]
    ELSE NoMatch

\* req.headers.authorization || "" matched against /^Bearer (.+)$/
\* (part_000:42, part_001:32, part_002:147, backend/index.js:59, Dockerfile:88)
parseBearerStrict(h) ==
    IF /\ Len(h) >= Len(Bearer) + 2
       /\ SubSeq(h, 1, Len(Bearer)) = Bearer
       /\ h[Len(Bearer) + 1] = " "
    THEN [matched |-> TRUE, token |-> SubSeq(h, Len(Bearer) + 2, Len(h))]
    ELSE NoMatch

\* /^Bearer\s+(.+)$/i of src/index.js: the scheme in any case, a greedy run of
\* whitespace that gives back one character when nothing follows it
parseBearerLoose(h) ==
    LET k == WsRun(h, Len(Bearer) + 1) IN
    IF /\ Len(h) >= Len(Bearer) + 2
       /\ ToLowerCase(SubSeq(h, 1, Len(Bearer))) = ToLowerCase(Bearer)
       /\ k >= 1
    THEN IF Len(Bearer) + k < Len(h)
         THEN [matched |-> TRUE, token |-> SubSeq(h, Len(Bearer) + k + 1, Len(h))]
         ELSE IF k >= 2
              THEN [matched |-> TRUE, token |-> <<h[Len(h)]>>]
              ELSE NoMatch
    ELSE NoMatch

parseBearer(d, h) ==
    IF d = "index" THEN parseBearerLoose(h) ELSE parseBearerStrict(h)

\* ------------------------------------------------------------------ tokens
\* The bearer strings the callers hold.  What each one is decides what the two
\* verification libraries answer:
\*   J  a JWT signed by this server with JWT_SECRET for uid u1, not expired
\*   K  the same for uid u2
\*   E  a JWT signed by this server whose exp has passed
\*   F  a Firebase ID token of uid u1 (aud p1), G one of uid u2
\*   anything else is not a token at all

EmailA == <<"a", "@", "b">>
EmailC == <<"c", "@", "d">>
NoClaims == [ok |-> FALSE, uid |-> "", email |-> <<>>, name |-> "", aud |-> "", err |-> ""]
Claims(uid, email, name, aud) ==
    [ok |-> TRUE, uid |-> uid, email |-> email, name |-> name, aud |-> aud, err |-> ""]
Throws(msg) == [NoClaims EXCEPT !.err = msg]

\* jsonwebtoken's jwt.verify(token, secret) for a non-empty secret
jwtVerify(token) ==
    CASE token = <<"J">> -> Claims("u1", EmailA, "", "")
      [] token = <<"K">> -> Claims("u2", EmailC, "", "")
      [] token = <<"E">> -> Throws("jwt expired")
      [] token \in {<<"F">>, <<"G">>} -> Throws("invalid algorithm")
      [] OTHER -> Throws("jwt malformed")

\* firebase-admin's admin.auth().verifyIdToken(token)
verifyIdToken(token) ==
    CASE token = <<"F">> -> Claims("u1", EmailA, "Ann", "p1")
      [] token = <<"G">> -> Claims("u2", EmailC, "", "p1")
      [] token \in {<<"J">>, <<"K">>, <<"E">>} ->
            Throws("Firebase ID token has no kid claim")
      [] OTHER -> Throws("Decoding Firebase ID token failed")

SecretMin == 16

\* the length class of JWT_SECRET against a minimum length
SecretLen(secret) == CASE secret = "" -> 0 [] secret = "short" -> 1 [] OTHER -> SecretMin

\* a requireJwtSecret that hands back whatever the environment holds
requireJwtSecretNeverThrows(secret) == FALSE

\* requireJwtSecret of part_002: throws unless the secret has 16 characters
requireJwtSecretThrows(secret) == secret = "" \/ SecretLen(secret) < SecretMin

MissingSecretMsg == "Missing JWT_SECRET (set it in Cloud Run env vars, length >= 16 recommended)"

\* a verifyJwt that verifies against no key and so rejects every token
verifyJwtRejectsAll(secret, token) == Throws("invalid signature")

\* verifyJwt of part_002
verifyJwt(secret, token) ==
    IF requireJwtSecretThrows(secret) THEN Throws(MissingSecretMsg) ELSE jwtVerify(token)

\* signJwt: the token it returns as the claims it carries; ok = FALSE when it throws
signJwt(d, secret, uid, email) ==
    IF d = "part002"
    THEN IF requireJwtSecretThrows(secret) THEN Throws(MissingSecretMsg)
         ELSE Claims(uid, email, "", "")
    ELSE IF secret = "" THEN Throws("JWT_SECRET is not set on server")
         ELSE Claims(uid, email, "", "")

\* pickProjectId of part_002, with FIREBASE_SERVICE_ACCOUNT and GCLOUD_PROJECT
\* unset: process.env.AUTH_PROJECT_ID || fallbackFromToken || null
pickProjectId(env, fallbackFromToken) ==
    IF env # "" THEN env ELSE fallbackFromToken

\* ------------------------------------------------------------------ numbers
\* A JavaScript value that the code turns into a number.  t is its type:
\* "undef", "null", "num" (finite, n at scale Scale), "inf" (n = 1: Infinity,
\* what JSON 1e999 parses to; n = -1: -Infinity), "nan", "str" (the string s).

Scale == 100 * 100
JNum(n) == [n |-> n, s |-> <<>>, t |-> "num"]
JInt(i) == JNum(i * Scale)
\* the decimal num/den
Dec(num, den) == JNum((num * Scale) \div den)
JUndef == [n |-> 0, s |-> <<>>, t |-> "undef"]
JNull == [n |-> 0, s |-> <<>>, t |-> "null"]
JInf == [n |-> 1, s |-> <<>>, t |-> "inf"]
JNegInf == [n |-> -1, s |-> <<>>, t |-> "inf"]
JNaN == [n |-> 0, s |-> <<>>, t |-> "nan"]
JStr(s) == [n |-> 0, s |-> s, t |-> "str"]

Digits == <<"0", "1", "2", "3", "4", "5", "6", "7", "8", "9">>
IsDigit(c) == \E i \in 1..Len(Digits) : Digits[i] = c
DigitVal(c) == (CHOOSE i \in 1..Len(Digits) : Digits[i] = c) - 1

RECURSIVE DecimalValue(_)
DecimalValue(s) ==
    IF s = <<>> THEN 0
    ELSE 10 * DecimalValue(SubSeq(s, 1, Len(s) - 1)) + DigitVal(s[Len(s)])

\* Number(string) for the strings the model sends: blank is 0, a run of decimal
\* digits is its value, anything else is NaN
StringToNumber(s) ==
    LET t == Trim(s) IN
    IF t = <<>> THEN JNum(0)
    ELSE IF \A i \in 1..Len(t) : IsDigit(t[i]) THEN JInt(DecimalValue(t))
    ELSE JNaN

\* Number(x)
Number(x) ==
    CASE x.t = "undef" -> JNaN
      [] x.t = "null" -> JNum(0)
      [] x.t = "str" -> StringToNumber(x.s)
      [] OTHER -> x

NumberIsInteger(x) == x.t = "num" /\ x.n % Scale = 0
NumberIsFinite(x) == x.t = "num"

Sign(x) == IF x.n > 0 THEN 1 ELSE IF x.n < 0 THEN -1 ELSE 0

\* x * y of two fixed-point magnitudes, multiplied by integer and fractional
\* parts so that no intermediate product leaves the 32-bit integers of the model checker
FixMul(x, y) ==
    LET qx == x \div Scale
        rx == x % Scale
        qy == y \div Scale
        ry == y % Scale
    IN qx * qy * Scale + qx * ry + rx * qy + ((rx * ry) \div Scale)

\* a * b of two numbers (magnitudes stay far from the overflow of a double)
JMul(a, b) ==
    CASE a.t = "nan" \/ b.t = "nan" -> JNaN
      [] a.t = "num" /\ b.t = "num" -> JNum(FixMul(a.n, b.n))
      [] Sign(a) * Sign(b) = 0 -> JNaN
      [] Sign(a) * Sign(b) > 0 -> JInf
      [] OTHER -> JNegInf

\* a + b of two numbers
JAdd(a, b) ==
    CASE a.t = "nan" \/ b.t = "nan" -> JNaN
      [] a.t = "num" /\ b.t = "num" -> JNum(a.n + b.n)
      [] a.t = "inf" /\ b.t = "inf" -> IF a.n = b.n THEN a ELSE JNaN
      [] a.t = "inf" -> a
      [] OTHER -> b

\* ------------------------------------------------------------------ items
\* An element of body.items: null, a primitive, or an object with the fields
\* name, itemId (a string or absent), qty and price (JavaScript values).

Absent == [s |-> <<>>, present |-> FALSE]
Text(s) == [s |-> s, present |-> TRUE]
Item(name, itemId, qty, price) ==
    [name |-> name, t |-> "obj", itemId |-> itemId, qty |-> qty, price |-> price]
NullItem == [Item(Absent, Absent, JUndef, JUndef) EXCEPT !.t = "null"]
PrimItem == [Item(Absent, Absent, JUndef, JUndef) EXCEPT !.t = "prim"]

\* a string field is truthy when it is present and not empty
Truthy(f) == f.present /\ f.s # <<>>

\* a resolution that trims each field before it falls back to the next:
\* String(it.name || "").trim() || String(it.itemId || "").trim()
ItemNameTrimmedFirst(it) ==
    IF it.name.present /\ Trim(it.name.s) # <<>> THEN Trim(it.name.s)
    ELSE IF it.itemId.present THEN Trim(it.itemId.s) ELSE <<>>

\* String(it.name || it.itemId || "").trim()
ItemName(it) ==
    Trim(IF Truthy(it.name) THEN it.name.s
         ELSE IF Truthy(it.itemId) THEN it.itemId.s ELSE <<>>)

QtyMax == 99

\* a range check that lets zero through: qty < 0 for qty <= 0
QtyRejectedBelowZero(qty) ==
    ~NumberIsInteger(qty) \/ qty.n < 0 \/ qty.n > QtyMax * Scale

\* !Number.isInteger(qty) || qty <= 0 || qty > 99
QtyRejected(qty) ==
    ~NumberIsInteger(qty) \/ qty.n <= 0 \/ qty.n > QtyMax * Scale

\* a price taken as it comes
SafePriceUnchecked(price) == price

\* Number.isFinite(price) ? price : 0
SafePrice(price) == IF NumberIsFinite(price) THEN price ELSE JNum(0)

\* the verdict of normalizeItems on one element: "" or the error it returns
ItemError(it) ==
    IF it.t # "obj" THEN "each item must be an object"
    ELSE IF ItemName(it) = <<>> THEN "item name (or itemId) is required"
    ELSE IF QtyRejected(Number(it.qty)) THEN "qty must be 1..99"
    ELSE ""

\* a push that keeps the line total where the unit price belongs
NormalizedItemPriceIsTotal(it) ==
    LET qty == Number(it.qty)
        safePrice == SafePrice(Number(it.price))
    IN [name |-> ItemName(it), qty |-> qty, price |-> JMul(safePrice, qty),
        lineTotal |-> JMul(safePrice, qty)]

\* normalized.push({ name, price: safePrice, qty, lineTotal: safePrice * qty })
NormalizedItem(it) ==
    LET qty == Number(it.qty)
        safePrice == SafePrice(Number(it.price))
    IN [name |-> ItemName(it), qty |-> qty, price |-> safePrice,
        lineTotal |-> JMul(safePrice, qty)]

\* a loop that drops an invalid element and keeps the rest
RECURSIVE NormalizeSkipInvalid(_, _, _)
NormalizeSkipInvalid(a, i, normalized) ==
    IF i > Len(a) THEN [error |-> "", items |-> normalized]
    ELSE IF ItemError(a[i]) # "" THEN NormalizeSkipInvalid(a, i + 1, normalized)
    ELSE NormalizeSkipInvalid(a, i + 1, Append(normalized, NormalizedItem(a[i])))

\* the loop of normalizeItems over the elements from position i on
RECURSIVE NormalizeFrom(_, _, _)
NormalizeFrom(a, i, normalized) ==
    IF i > Len(a) THEN [error |-> "", items |-> normalized]
    ELSE IF ItemError(a[i]) # "" THEN [error |-> ItemError(a[i]), items |-> <<>>]
    ELSE NormalizeFrom(a, i + 1, Append(normalized, NormalizedItem(a[i])))

\* body.items: absent, an array, or something that is not an array
NoItems == [t |-> "undef", a |-> <<>>]
ItemArray(a) == [t |-> "array", a |-> a]
NotAnArray == [t |-> "other", a |-> <<>>]

\* normalizeItems(items): { error } or { items: normalized }
normalizeItems(items) ==
    IF items.t # "array" \/ Len(items.a) = 0
    THEN [error |-> "items must be a non-empty array", items |-> <<>>]
    ELSE NormalizeFrom(items.a, 1, <<>>)

\* a reduce that adds the unit prices and forgets the quantities
RECURSIVE SumPrices(_)
SumPrices(items) ==
    IF items = <<>> THEN JNum(0)
    ELSE JAdd(SumPrices(SubSeq(items, 1, Len(items) - 1)), items[Len(items)].price)

\* items.reduce((s, i) => s + i.lineTotal, 0)
RECURSIVE SumLineTotals(_)
SumLineTotals(items) ==
    IF items = <<>> THEN JNum(0)
    ELSE JAdd(SumLineTotals(SubSeq(items, 1, Len(items) - 1)),
              items[Len(items)].lineTotal)

TaxRate == 600

\* ------------------------------------------------------------------ requests

Drafts == {"index", "part002", "backend", "part000", "part001", "dockerfile"}
DualDrafts == {"index", "part002"}

NoPassword == [s |-> <<>>, t |-> "undef"]
Password(s) == [s |-> s, t |-> "str"]
NoBody ==
    [uid |-> "", email |-> <<>>, items |-> NoItems,
     password |-> NoPassword, subtotal |-> JUndef, tax |-> JUndef,
     total |-> JUndef, status |-> "", createdAt |-> JUndef]
NoReq == [route |-> "none", header |-> Absent, body |-> NoBody]

NoUser == [uid |-> "", email |-> <<>>, name |-> ""]
UserOf(decoded) == [uid |-> decoded.uid, email |-> decoded.email, name |-> decoded.name]

\* a document of users/{uid}/orders; createdAt is the commit time
\* admin.firestore.FieldValue.serverTimestamp(): the store replaces it by the
\* time of the commit
ServerTimestamp == -1

NoOrder ==
    [uid |-> "", items |-> <<>>, subtotal |-> JUndef, tax |-> JUndef, total |-> JUndef,
     status |-> "", createdAt |-> 0, owner |-> "", project |-> "",
     id |-> 0, rawItems |-> NoItems]

NoLoc ==
    [token |-> <<>>, uid |-> "", email |-> <<>>, password |-> <<>>,
     user |-> NoUser, authType |-> "", firebaseProjectId |-> "", readVer |-> 0,
     order |-> NoOrder]

NoRes ==
    [orders |-> <<>>, token |-> NoClaims, uid |-> "", email |-> <<>>, error |-> "",
     status |-> 0, user |-> NoUser, authType |-> "", firebaseProjectId |-> "",
     message |-> "", orderId |-> 0]

\* res.status(status).json({ success: false, message, error })
Fail(status, message, error) ==
    [NoRes EXCEPT !.status = status, !.message = message, !.error = error]

Outcome(p, l, r, c) == [pc |-> p, loc |-> l, res |-> r, calls |-> c]

\* the routes each draft declares; any other request gets 404
Routes(d) ==
    CASE d \in DualDrafts ->
            {"GET /me", "GET /orders", "POST /orders", "POST /signup", "POST /login"}
      [] d = "part000" -> {"GET /orders", "POST /orders"}
      [] OTHER -> {"GET /me", "GET /orders", "POST /orders"}
Protected == {"GET /me", "GET /orders", "POST /orders"}

\* what the 401 of a failed token verification says
InvalidTokenMsg(d) ==
    IF d \in {"backend", "part000"} THEN "Invalid token" ELSE "Invalid or expired token"

\* ------------------------------------------------------------------ handlers

\* GET /me
MeResponse(d, l) ==
    CASE d = "index" ->
            [NoRes EXCEPT !.status = 200, !.user = l.user, !.authType = l.authType]
      [] d = "part002" ->
            [NoRes EXCEPT !.status = 200, !.user = l.user, !.authType = l.authType,
                          !.firebaseProjectId = l.firebaseProjectId]
      [] OTHER -> [NoRes EXCEPT !.status = 200, !.user = l.user]

NoProjectMsg ==
    "Cannot determine Firestore projectId (set FIREBASE_PROJECT_ID in Cloud Run env vars)"

\* the guard that opens the orders handlers of part_001 and part_002
ProjectGuard(d, env, l) ==
    CASE d = "part001" /\ env = "" -> Fail(500, NoProjectMsg, "")
      [] d = "part002" /\ l.firebaseProjectId = "" ->
            Fail(400, "Missing project id for Firestore", "")
      [] OTHER -> NoRes

\* the database a draft writes to
ProjectOf(d, l) == IF d = "part002" THEN l.firebaseProjectId ELSE "default"

\* body.status || "PLACED"
StatusOf(body) == IF body.status # "" THEN body.status ELSE "PLACED"

\* a pricing that keeps a subtotal, tax and total the caller sent
PricedOrderTrustingBody(l, body, items) ==
    LET subtotal == IF body.subtotal.t = "num" THEN body.subtotal ELSE SumLineTotals(items)
        tax == IF body.tax.t = "num" THEN body.tax ELSE JMul(subtotal, JNum(TaxRate))
        total == IF body.total.t = "num" THEN body.total ELSE JAdd(subtotal, tax)
    IN [NoOrder EXCEPT !.owner = l.user.uid, !.project = "default",
                       !.uid = l.user.uid, !.items = items,
                       !.subtotal = subtotal, !.tax = tax,
                       !.total = total, !.status = StatusOf(body),
                       !.createdAt = ServerTimestamp]

\* POST /orders of src/index.js: the order priced from the normalized items
PricedOrder(l, body, items) ==
    LET subtotal == SumLineTotals(items)
        tax == JMul(subtotal, JNum(TaxRate))
        total == JAdd(subtotal, tax)
    IN [NoOrder EXCEPT !.owner = l.user.uid, !.project = "default",
                       !.uid = l.user.uid, !.items = items,
                       !.subtotal = subtotal, !.tax = tax,
                       !.total = total, !.status = StatusOf(body),
                       !.createdAt = ServerTimestamp]

\* a spread written the other way round, { uid, ...body }: the body's uid wins
SpreadOrderBodyFirst(d, l, body) ==
    [NoOrder EXCEPT !.owner = l.user.uid, !.project = ProjectOf(d, l),
                    !.uid = IF body.uid # "" THEN body.uid ELSE l.user.uid,
                    !.rawItems = body.items,
                    !.subtotal = body.subtotal, !.tax = body.tax,
                    !.total = body.total, !.status = StatusOf(body),
                    !.createdAt = ServerTimestamp]

\* a spread written last, { uid, createdAt, status, ...body }: a createdAt of
\* the body replaces the server's timestamp
SpreadOrderBodyLast(d, l, body) ==
    [NoOrder EXCEPT !.owner = l.user.uid, !.project = ProjectOf(d, l),
                    !.uid = l.user.uid, !.rawItems = body.items,
                    !.subtotal = body.subtotal, !.tax = body.tax,
                    !.total = body.total, !.status = StatusOf(body),
                    !.createdAt = IF body.createdAt.t = "num"
                                  THEN body.createdAt.n \div Scale
                                  ELSE ServerTimestamp]

\* POST /orders of the other drafts: { ...body, uid, createdAt, status }
SpreadOrder(d, l, body) ==
    [NoOrder EXCEPT !.owner = l.user.uid, !.project = ProjectOf(d, l),
                    !.uid = l.user.uid, !.rawItems = body.items,
                    !.subtotal = body.subtotal, !.tax = body.tax,
                    !.total = body.total, !.status = StatusOf(body),
                    !.createdAt = ServerTimestamp]

\* the order POST /orders hands to orders.add
BuildOrder(d, l, body) ==
    IF d = "index" THEN PricedOrder(l, body, normalizeItems(body.items).items)
    ELSE SpreadOrder(d, l, body)

\* POST /orders, up to its await of orders.add
PostOrdersStart(d, env, r, l, c) ==
    IF ProjectGuard(d, env, l).status # 0
    THEN Outcome("done", l, ProjectGuard(d, env, l), c)
    ELSE IF d = "index" /\ normalizeItems(r.body.items).error # ""
    THEN Outcome("done", l, Fail(400, normalizeItems(r.body.items).error, ""), c)
    ELSE Outcome("orders.add", [l EXCEPT !.order = BuildOrder(d, l, r.body)],
                 NoRes, Append(c, "orders.add"))

\* GET /orders, up to its await of the query
GetOrdersStart(d, env, r, l, c) ==
    IF ProjectGuard(d, env, l).status # 0
    THEN Outcome("done", l, ProjectGuard(d, env, l), c)
    ELSE Outcome("orders.get", l, NoRes, Append(c, "orders.get"))

\* next(): the route's handler runs up to its first await
HandlerStart(d, env, r, l, c) ==
    CASE r.route = "GET /me" -> Outcome("done", l, MeResponse(d, l), c)
      [] r.route = "GET /orders" -> GetOrdersStart(d, env, r, l, c)
      [] OTHER -> PostOrdersStart(d, env, r, l, c)

\* ------------------------------------------------------------------ requireAuth

HeaderValue(r) == IF r.header.present THEN r.header.s ELSE <<>>

Authenticated(l, decoded, authType, projectId) ==
    [l EXCEPT !.user = UserOf(decoded), !.authType = authType,
              !.firebaseProjectId = projectId]

\* requireAuth up to its first await
RequireAuthStart(d, secret, env, r, l, c) ==
    LET m == parseBearer(d, HeaderValue(r))
        lt == [l EXCEPT !.token = m.token]
        dj == verifyJwt(secret, m.token)
    IN IF ~m.matched
       THEN Outcome("done", l, Fail(401, "Missing Bearer token", ""), c)
       ELSE IF d = "part002"
       THEN IF dj.ok
            THEN HandlerStart(d, env, r,
                     Authenticated(lt, dj, "jwt", pickProjectId(env, "")),
                     c \o <<"jwt.verify", "next">>)
            ELSE Outcome("verifyIdToken", lt, NoRes, c \o <<"jwt.verify", "verifyIdToken">>)
       ELSE Outcome("verifyIdToken", lt, NoRes, Append(c, "verifyIdToken"))

NoSecretMsg == "JWT_SECRET is missing on server (set it in Cloud Run env vars)"

\* a second step that reports the error of the first step instead of its own
IndexTryJwtFirstError(secret, env, r, l, c) ==
    LET dj == jwtVerify(l.token) IN
    IF secret = "" THEN Outcome("done", l, Fail(500, NoSecretMsg, ""), c)
    ELSE IF dj.ok
    THEN HandlerStart("index", env, r, Authenticated(l, dj, "jwt", ""),
                      c \o <<"jwt.verify", "next">>)
    ELSE Outcome("done", l,
                 Fail(401, "Invalid or expired token", verifyIdToken(l.token).err),
                 Append(c, "jwt.verify"))

\* requireAuth of src/index.js once verifyIdToken has rejected: B) Try JWT
IndexTryJwt(secret, env, r, l, c) ==
    LET dj == jwtVerify(l.token) IN
    IF secret = "" THEN Outcome("done", l, Fail(500, NoSecretMsg, ""), c)
    ELSE IF dj.ok
    THEN HandlerStart("index", env, r, Authenticated(l, dj, "jwt", ""),
                      c \o <<"jwt.verify", "next">>)
    ELSE Outcome("done", l, Fail(401, "Invalid or expired token", dj.err),
                 Append(c, "jwt.verify"))

\* a requireAuth whose 401 tells an expired self-issued token from other
\* invalid tokens
RequireAuthResumeExpiredTold(d, secret, env, r, l, c) ==
    LET decoded == verifyIdToken(l.token) IN
    IF decoded.ok
    THEN HandlerStart(d, env, r,
             Authenticated(l, decoded,
                 IF d \in DualDrafts THEN "firebase" ELSE "",
                 IF d = "part002" THEN pickProjectId(env, decoded.aud) ELSE ""),
             Append(c, "next"))
    ELSE IF d = "index" THEN IndexTryJwt(secret, env, r, l, c)
    ELSE Outcome("done", l,
                 Fail(401, IF jwtVerify(l.token).err = "jwt expired"
                           THEN "Token expired" ELSE InvalidTokenMsg(d),
                      decoded.err), c)

\* requireAuth from the settlement of verifyIdToken on
RequireAuthResume(d, secret, env, r, l, c) ==
    LET decoded == verifyIdToken(l.token) IN
    IF decoded.ok
    THEN HandlerStart(d, env, r,
             Authenticated(l, decoded,
                 IF d \in DualDrafts THEN "firebase" ELSE "",
                 IF d = "part002" THEN pickProjectId(env, decoded.aud) ELSE ""),
             Append(c, "next"))
    ELSE IF d = "index" THEN IndexTryJwt(secret, env, r, l, c)
    ELSE Outcome("done", l, Fail(401, InvalidTokenMsg(d), decoded.err), c)

\* ------------------------------------------------------------------ accounts

\* cleanEmail of src/index.js, and String(email || "").trim().toLowerCase()
cleanEmail(email) == ToLowerCase(Trim(email))

PasswordMin == 6

\* isStrongEnoughPassword of src/index.js
isStrongEnoughPassword(pw) == pw.t = "str" /\ Len(pw.s) >= PasswordMin

\* String(password || "")
PasswordString(pw) == IF pw.t = "undef" THEN <<>> ELSE pw.s

\* e.includes("@")
IncludesAt(e) == \E i \in 1..Len(e) : e[i] = "@"

\* bcrypt.hash(p, 10) and bcrypt.compare(p, hash): the hash is the password under
\* a one-way wrapper, and compare answers whether the hash is that of p
bcryptHash(p) == <<"$2a$10$">> \o p
bcryptCompare(p, hash) == hash = bcryptHash(p)

\* the ids db.collection("users").doc() and crypto.randomUUID() hand out
IdNames == <<"id1", "id2", "id3", "id4", "id5", "id6", "id7", "id8", "id9">>
NewId(n) == IdNames[n]

\* POST /signup up to its first await
SignupStart(d, secret, env, r, l, c) ==
    LET email == cleanEmail(r.body.email)
        p == PasswordString(r.body.password)
    IN IF d = "index"
       THEN IF email = <<>> THEN Outcome("done", l, Fail(400, "email is required", ""), c)
            ELSE IF ~isStrongEnoughPassword(r.body.password)
            THEN Outcome("done", l,
                     Fail(400, "password must be at least 6 characters", ""), c)
            ELSE IF secret = ""
            THEN Outcome("done", l, Fail(500, "Server missing JWT_SECRET", ""), c)
            ELSE Outcome("signup.get", [l EXCEPT !.email = email, !.password = p],
                         NoRes, Append(c, "userEmails.get"))
       ELSE IF email = <<>> \/ ~IncludesAt(email)
            THEN Outcome("done", l, Fail(400, "Invalid email", ""), c)
            ELSE IF p = <<>> \/ Len(p) < PasswordMin
            THEN Outcome("done", l, Fail(400, "Password must be at least 6 chars", ""), c)
            ELSE IF pickProjectId(env, "") = ""
            THEN Outcome("done", l,
                     Fail(500, "Cannot determine Firestore projectId", ""), c)
            ELSE Outcome("signup.find", [l EXCEPT !.email = email, !.password = p],
                         NoRes, Append(c, "auth_users.where"))

\* POST /login up to its first await
LoginStart(d, secret, env, r, l, c) ==
    LET email == cleanEmail(r.body.email)
        p == PasswordString(r.body.password)
    IN IF d = "index"
       THEN IF email = <<>> \/ p = <<>>
            THEN Outcome("done", l, Fail(400, "email and password are required", ""), c)
            ELSE IF secret = ""
            THEN Outcome("done", l, Fail(500, "Server missing JWT_SECRET", ""), c)
            ELSE Outcome("login.get", [l EXCEPT !.email = email, !.password = p],
                         NoRes, Append(c, "userEmails.get"))
       ELSE IF email = <<>> \/ ~IncludesAt(email)
            THEN Outcome("done", l, Fail(400, "Invalid email", ""), c)
            ELSE IF p = <<>>
            THEN Outcome("done", l, Fail(400, "Password required", ""), c)
            ELSE IF pickProjectId(env, "") = ""
            THEN Outcome("done", l,
                     Fail(500, "Cannot determine Firestore projectId", ""), c)
            ELSE Outcome("login.find", [l EXCEPT !.email = email, !.password = p],
                         NoRes, Append(c, "auth_users.where"))

\* res.json({ success: true, token, ... }) of signup and login
TokenResponse(token, uid, email) ==
    [NoRes EXCEPT !.status = 200, !.token = token, !.uid = uid, !.email = email]

\* the catch of POST /signup in src/index.js:
\* msg.includes("already registered") ? 409 : 500
SignupCatchStatus(msg) == IF msg = "Email already registered" THEN 409 ELSE 500

\* signJwt and the response after it, or the catch when it throws
IssueToken(d, secret, uid, email, failMsg) ==
    LET token == signJwt(d, secret, uid, email) IN
    IF token.ok THEN TokenResponse(token, uid, email)
    ELSE Fail(IF failMsg = "Signup failed" /\ d = "index"
              THEN SignupCatchStatus(token.err) ELSE 500,
              failMsg, token.err)

\* the version of userEmails/{email}: 0 when the document does not exist
EmailDocVer(docs, email) ==
    IF \E x \in docs : x.email = email
    THEN (CHOOSE x \in docs : x.email = email).ver ELSE 0

\* a commit that does not look at what the transaction read
TxnCommitsUnchecked(docs, email, readVer) == TRUE

\* whether a transaction that read userEmails/{email} at version readVer commits
TxnCommits(docs, email, readVer) == EmailDocVer(docs, email) = readVer

\* ------------------------------------------------------------------ the store

OrdersLimit == 50

\* .orderBy("createdAt", "desc"): the documents of a set, latest commit first
RECURSIVE OrderByCreatedAtDesc(_)
OrderByCreatedAtDesc(docs) ==
    IF docs = {} THEN <<>>
    ELSE LET latest == CHOOSE x \in docs : \A y \in docs : y.createdAt <= x.createdAt
         IN <<latest>> \o OrderByCreatedAtDesc(docs \ {latest})

\* .limit(n)
Limit(q, n) == SubSeq(q, 1, IF Len(q) < n THEN Len(q) ELSE n)

\* users/{uid}/orders of one project's database
OrdersOf(all, project, uid) == {o \in all : o.project = project /\ o.owner = uid}

\* the query of GET /orders
RecentOrders(all, project, uid) ==
    Limit(OrderByCreatedAtDesc(OrdersOf(all, project, uid)), OrdersLimit)

\* ------------------------------------------------------------------ actions

Apply(s, o) ==
    /\ pc' = [pc EXCEPT ![s] = o.pc]
    /\ loc' = [loc EXCEPT ![s] = o.loc]
    /\ res' = [res EXCEPT ![s] = o.res]
    /\ calls' = [calls EXCEPT ![s] = o.calls]

Respond(s, r) == Apply(s, Outcome("done", loc[s], r, calls[s]))

Config == <<draft, JWT_SECRET, PROJECT_ID>>
Store == <<userEmails, users, auth_users, orders, nextId, clock>>

\* a request reaches the server
Receive(s, r) ==
    /\ pc[s] = "idle"
    /\ IF s = 1 THEN TRUE ELSE pc[s - 1] # "idle"
    /\ req' = [req EXCEPT ![s] = r]
    /\ pc' = [pc EXCEPT ![s] = "received"]
    /\ UNCHANGED <<Config, loc, res, calls, Store>>

\* requireAuth, and the handler behind it when the JWT of part_002 verifies
RequireAuth(s) ==
    /\ pc[s] = "received"
    /\ req[s].route \in Routes(draft) \cap Protected
    /\ Apply(s, RequireAuthStart(draft, JWT_SECRET, PROJECT_ID, req[s], loc[s], calls[s]))
    /\ UNCHANGED <<Config, req, Store>>

\* admin.auth().verifyIdToken settles: the rest of requireAuth, and the handler
VerifyIdTokenSettled(s) ==
    /\ pc[s] = "verifyIdToken"
    /\ Apply(s, RequireAuthResume(draft, JWT_SECRET, PROJECT_ID, req[s], loc[s], calls[s]))
    /\ UNCHANGED <<Config, req, Store>>

\* the document the store keeps for an added order: the id it assigns, and the
\* commit time wherever the order holds the serverTimestamp() sentinel
Committed(order, id, now) ==
    [order EXCEPT !.id = id,
                  !.createdAt = IF order.createdAt = ServerTimestamp THEN now
                                ELSE order.createdAt]

\* orders.add commits: the store assigns the id and the createdAt timestamp
OrdersAdd(s) ==
    /\ pc[s] = "orders.add"
    /\ orders' = orders \cup {Committed(loc[s].order, nextId, clock)}
    /\ nextId' = nextId + 1
    /\ clock' = clock + 1
    /\ Respond(s, [NoRes EXCEPT !.status = 200, !.orderId = nextId])
    /\ UNCHANGED <<Config, req, userEmails, users, auth_users>>

\* the query of GET /orders answers
OrdersGet(s) ==
    /\ pc[s] = "orders.get"
    /\ Respond(s, [NoRes EXCEPT !.status = 200,
                     !.orders = RecentOrders(orders, ProjectOf(draft, loc[s]),
                                             loc[s].user.uid)])
    /\ UNCHANGED <<Config, req, Store>>

\* POST /signup up to its first await
Signup(s) ==
    /\ pc[s] = "received"
    /\ req[s].route = "POST /signup"
    /\ req[s].route \in Routes(draft)
    /\ Apply(s, SignupStart(draft, JWT_SECRET, PROJECT_ID, req[s], loc[s], calls[s]))
    /\ UNCHANGED <<Config, req, Store>>

\* src/index.js: emailRef.get() answers; then bcrypt.hash, users.doc() and the
\* start of the transaction
SignupEmailRead(s) ==
    /\ pc[s] = "signup.get"
    /\ IF \E x \in userEmails : x.email = loc[s].email
       THEN /\ Respond(s, Fail(409, "Email already registered", ""))
            /\ UNCHANGED nextId
       ELSE /\ Apply(s, Outcome("txn.get", [loc[s] EXCEPT !.uid = NewId(nextId)],
                                NoRes, Append(calls[s], "runTransaction")))
            /\ nextId' = nextId + 1
    /\ UNCHANGED <<Config, req, userEmails, users, auth_users, orders, clock>>

\* src/index.js: t.get(emailRef) answers inside the transaction
SignupTxnRead(s) ==
    /\ pc[s] = "txn.get"
    /\ IF \E x \in userEmails : x.email = loc[s].email
       THEN Respond(s, Fail(SignupCatchStatus("Email already registered"),
                            "Signup failed", "Email already registered"))
       ELSE Apply(s, Outcome("txn.commit",
                     [loc[s] EXCEPT !.readVer = EmailDocVer(userEmails, loc[s].email)],
                     NoRes, calls[s]))
    /\ UNCHANGED <<Config, req, Store>>

\* a transaction that writes the email index and not the user document
SignupTxnCommitIndexOnly(s) ==
    /\ pc[s] = "txn.commit"
    /\ IF TxnCommits(userEmails, loc[s].email, loc[s].readVer)
       THEN /\ userEmails' = userEmails \cup
                   {[uid |-> loc[s].uid, email |-> loc[s].email, ver |-> clock]}
            /\ clock' = clock + 1
            /\ Respond(s, IssueToken(draft, JWT_SECRET, loc[s].uid, loc[s].email,
                                     "Signup failed"))
       ELSE /\ Apply(s, Outcome("txn.get", loc[s], NoRes, calls[s]))
            /\ UNCHANGED <<userEmails, clock>>
    /\ UNCHANGED <<Config, req, users, auth_users, orders, nextId>>

\* src/index.js: the transaction commits both documents, or runs again when the
\* document it read has changed; after the commit, signJwt and the response
SignupTxnCommit(s) ==
    /\ pc[s] = "txn.commit"
    /\ IF TxnCommits(userEmails, loc[s].email, loc[s].readVer)
       THEN /\ userEmails' = userEmails \cup
                   {[uid |-> loc[s].uid, email |-> loc[s].email, ver |-> clock]}
            /\ users' = users \cup
                   {[uid |-> loc[s].uid, email |-> loc[s].email,
                     passwordHash |-> bcryptHash(loc[s].password)]}
            /\ clock' = clock + 1
            /\ Respond(s, IssueToken(draft, JWT_SECRET, loc[s].uid, loc[s].email,
                                     "Signup failed"))
       ELSE /\ Apply(s, Outcome("txn.get", loc[s], NoRes, calls[s]))
            /\ UNCHANGED <<userEmails, users, clock>>
    /\ UNCHANGED <<Config, req, auth_users, orders, nextId>>

\* part_002: findUserByEmail answers; then randomUUID, bcrypt.hash and the set
SignupFind(s) ==
    /\ pc[s] = "signup.find"
    /\ IF \E x \in auth_users : x.email = loc[s].email
       THEN /\ Respond(s, Fail(409, "Email already registered", ""))
            /\ UNCHANGED nextId
       ELSE /\ Apply(s, Outcome("signup.set", [loc[s] EXCEPT !.uid = NewId(nextId)],
                                NoRes, Append(calls[s], "auth_users.set")))
            /\ nextId' = nextId + 1
    /\ UNCHANGED <<Config, req, userEmails, users, auth_users, orders, clock>>

\* part_002: auth_users/{uid}.set commits; then signJwt and the response
SignupSet(s) ==
    /\ pc[s] = "signup.set"
    /\ auth_users' = auth_users \cup
           {[uid |-> loc[s].uid, email |-> loc[s].email,
             passwordHash |-> bcryptHash(loc[s].password)]}
    /\ clock' = clock + 1
    /\ Respond(s, IssueToken(draft, JWT_SECRET, loc[s].uid, loc[s].email,
                             "Signup failed"))
    /\ UNCHANGED <<Config, req, userEmails, users, orders, nextId>>

\* POST /login up to its first await
Login(s) ==
    /\ pc[s] = "received"
    /\ req[s].route = "POST /login"
    /\ req[s].route \in Routes(draft)
    /\ Apply(s, LoginStart(draft, JWT_SECRET, PROJECT_ID, req[s], loc[s], calls[s]))
    /\ UNCHANGED <<Config, req, Store>>

InvalidLogin == Fail(401, "Invalid email or password", "")

\* src/index.js: userEmails/{email}.get() answers
LoginEmailRead(s) ==
    /\ pc[s] = "login.get"
    /\ IF \E x \in userEmails : x.email = loc[s].email
       THEN Apply(s, Outcome("login.user",
                     [loc[s] EXCEPT !.uid =
                         (CHOOSE x \in userEmails : x.email = loc[s].email).uid],
                     NoRes, Append(calls[s], "users.get")))
       ELSE Respond(s, InvalidLogin)
    /\ UNCHANGED <<Config, req, Store>>

\* a login that tells a wrong password apart from an unknown email
LoginCheckTelling(d, secret, l, account) ==
    IF ~bcryptCompare(l.password, account.passwordHash)
    THEN Fail(401, "Wrong password", "")
    ELSE IssueToken(d, secret, account.uid, l.email, "Login failed")

\* the end of POST /login once the account record is known
LoginCheck(d, secret, l, account) ==
    IF ~bcryptCompare(l.password, account.passwordHash) THEN InvalidLogin
    ELSE IssueToken(d, secret, account.uid, l.email, "Login failed")

\* src/index.js: users/{uid}.get() answers; bcrypt.compare, signJwt, the response
LoginUserRead(s) ==
    /\ pc[s] = "login.user"
    /\ IF \E x \in users : x.uid = loc[s].uid
       THEN Respond(s, LoginCheck(draft, JWT_SECRET, loc[s],
                        CHOOSE x \in users : x.uid = loc[s].uid))
       ELSE Respond(s, InvalidLogin)
    /\ UNCHANGED <<Config, req, Store>>

\* part_002: findUserByEmail answers (limit(1): any one matching document);
\* bcrypt.compare, signJwt, the response
LoginFind(s) ==
    /\ pc[s] = "login.find"
    /\ IF \E x \in auth_users : x.email = loc[s].email
       THEN \E x \in auth_users :
                /\ x.email = loc[s].email
                /\ Respond(s, LoginCheck(draft, JWT_SECRET, loc[s], x))
       ELSE Respond(s, InvalidLogin)
    /\ UNCHANGED <<Config, req, Store>>

\* ------------------------------------------------------------------ workloads

InitRequests ==
    /\ req = [s \in Slots |-> NoReq]
    /\ pc = [s \in Slots |-> "idle"]
    /\ loc = [s \in Slots |-> NoLoc]
    /\ res = [s \in Slots |-> NoRes]
    /\ calls = [s \in Slots |-> <<>>]

InitStore ==
    /\ userEmails = {}
    /\ users = {}
    /\ auth_users = {}
    /\ orders = {}
    /\ nextId = 1
    /\ clock = 1

Secrets == {"", "short", "long"}

InitConfig(ds) ==
    /\ draft \in ds
    /\ JWT_SECRET \in (IF draft \in DualDrafts THEN Secrets ELSE {""})
    /\ PROJECT_ID \in (IF draft \in {"part001", "part002"} THEN {"", "p1"} ELSE {""})

BearerHeader(token) == Text(Bearer \o <<" ">> \o token)

\* the Authorization headers of the authentication workload
AuthHeaders ==
    { Absent, Text(<<>>),
      BearerHeader(<<"J">>), BearerHeader(<<"E">>), BearerHeader(<<"F">>),
      BearerHeader(<<"X">>),
      Text(<<"b", "e", "a", "r", "e", "r", " ", "J">>),
      Text(<<"B", "E", "A", "R", "E", "R", " ", "X">>),
      Text(Bearer \o <<" ", " ", "J">>),
      Text(Bearer \o <<"\t", "F">>),
      Text(Bearer),
      Text(Bearer \o <<"J">>),
      Text(<<"B", "a", "s", "i", "c", " ", "J">>),
      Text(<<"J">>) }

\* a route every draft puts behind requireAuth
AuthRoute(d) == IF d = "part000" THEN "GET /orders" ELSE "GET /me"

ReceiveAuth(s) ==
    \E h \in AuthHeaders :
        Receive(s, [NoReq EXCEPT !.route = AuthRoute(draft), !.header = h])

InitAuth == InitConfig(Drafts) /\ InitRequests /\ InitStore

NextAuth ==
    \E s \in 1..AuthReqs :
        \/ ReceiveAuth(s)
        \/ RequireAuth(s)
        \/ VerifyIdTokenSettled(s)
        \/ OrdersGet(s)

\* every draft, requests that carry every kind of Authorization header
SpecAuth == InitAuth /\ [][NextAuth]_vars

\* ---- the order-normalization workload: one POST /orders to src/index.js

Latte == <<"L", "a", "t", "t", "e">>
PaddedTea == <<" ", "T", "e", "a", " ">>
MenuId == <<"m", "1", " ">>
LatteItem == Item(Text(Latte), Absent, JInt(2), Dec(45, 10))

\* the elements a submitted items array is built from
Catalogue ==
    { LatteItem,
      Item(Text(PaddedTea), Absent, JInt(1), JUndef),
      Item(Absent, Text(MenuId), JInt(QtyMax), Dec(1, 100)),
      Item(Text(<<>>), Text(MenuId), JInt(1), JNull),
      Item(Text(Latte), Absent, JStr(<<"2">>), JStr(<<"3">>)),
      Item(Text(Latte), Absent, JInt(1), JInf),
      Item(Text(Latte), Absent, JInt(0), JInt(1)),
      Item(Text(Latte), Absent, JInt(QtyMax + 1), JInt(1)),
      Item(Text(Latte), Absent, JInt(-1), JInt(1)),
      Item(Text(Latte), Absent, Dec(3, 2), JInt(1)),
      Item(Text(Latte), Absent, JUndef, JInt(1)),
      Item(Text(<<>>), Absent, JInt(0), JInt(1)),
      Item(Text(<<" ">>), Text(MenuId), JInt(1), JInt(1)),
      NullItem,
      PrimItem }

ItemLists == UNION {[1..k -> Catalogue] : k \in 0..MaxItems}

Bodies == {NoItems, NotAnArray} \cup {ItemArray(a) : a \in ItemLists}

ReceiveNorm ==
    \E items \in Bodies, t \in {<<"J">>, <<"F">>} :
        Receive(1, [NoReq EXCEPT !.route = "POST /orders", !.header = BearerHeader(t),
                                 !.body = [NoBody EXCEPT !.items = items]])

InitNorm == InitConfig({"index"}) /\ InitRequests /\ InitStore

NextNorm ==
    \/ ReceiveNorm
    \/ RequireAuth(1)
    \/ VerifyIdTokenSettled(1)
    \/ OrdersAdd(1)

\* src/index.js receiving one POST /orders with any body built from Catalogue
SpecNorm == InitNorm /\ [][NextNorm]_vars

\* ---- the orders workload: POST /orders and GET /orders to every draft

\* what a caller adds to the body beside the items
Honest == [NoBody EXCEPT !.items = ItemArray(<<LatteItem>>)]
ForgedA ==
    [Honest EXCEPT !.subtotal = JInt(1), !.tax = JInt(0), !.total = JInt(1),
                   !.uid = "u2", !.createdAt = JInt(0), !.status = "PAID"]
ForgedB ==
    [Honest EXCEPT !.subtotal = JInt(2), !.tax = JInt(1), !.total = JInt(3),
                   !.uid = "u1", !.createdAt = JInt(9)]

OrderTokens == {<<"J">>, <<"F">>, <<"G">>}

ReceiveOrder(s) ==
    \E t \in OrderTokens :
        \/ \E b \in {Honest, ForgedA, ForgedB} :
               Receive(s, [NoReq EXCEPT !.route = "POST /orders",
                                        !.header = BearerHeader(t), !.body = b])
        \/ Receive(s, [NoReq EXCEPT !.route = "GET /orders", !.header = BearerHeader(t)])

InitOrders ==
    /\ InitConfig(Drafts)
    /\ draft \in DualDrafts => JWT_SECRET = "long"
    /\ InitRequests
    /\ InitStore

NextOrders ==
    \E s \in 1..OrderReqs :
        \/ ReceiveOrder(s)
        \/ RequireAuth(s)
        \/ VerifyIdTokenSettled(s)
        \/ OrdersAdd(s)
        \/ OrdersGet(s)

\* every draft, authenticated callers creating and listing orders
SpecOrders == InitOrders /\ [][NextOrders]_vars

\* ---- the history workload: a store that already holds a caller's orders

\* what requireAuth leaves in the request of the caller holding token F
CallerF ==
    Authenticated(NoLoc, verifyIdToken(<<"F">>), "firebase",
                  pickProjectId(PROJECT_ID, verifyIdToken(<<"F">>).aud))

\* whether this deployment can store an order for that caller at all
CanStore ==
    PostOrdersStart(draft, PROJECT_ID, [NoReq EXCEPT !.body = Honest], CallerF, <<>>).pc
        = "orders.add"

\* the orders left by n earlier POST /orders of that caller, committed one
\* after the other
History(n) == {Committed(BuildOrder(draft, CallerF, Honest), k, k) : k \in 1..n}

\* as many earlier orders as the limit of GET /orders, one fewer and one more
HistorySizes == {OrdersLimit - 1, OrdersLimit, OrdersLimit + 1}

ReceiveHistory(s) ==
    \E t \in {<<"F">>, <<"G">>} :
        \/ Receive(s, [NoReq EXCEPT !.route = "POST /orders",
                                    !.header = BearerHeader(t), !.body = ForgedB])
        \/ Receive(s, [NoReq EXCEPT !.route = "GET /orders", !.header = BearerHeader(t)])

\* the two ways of building an order: src/index.js and src/backend/index.js
InitHistory ==
    /\ InitConfig({"index", "backend"})
    /\ draft \in DualDrafts => JWT_SECRET = "long"
    /\ InitRequests
    /\ userEmails = {}
    /\ users = {}
    /\ auth_users = {}
    /\ \E n \in (IF CanStore THEN HistorySizes ELSE {0}) :
          /\ orders = History(n)
          /\ nextId = n + 1
          /\ clock = n + 1

NextHistory ==
    \E s \in 1..HistoryReqs :
        \/ ReceiveHistory(s)
        \/ RequireAuth(s)
        \/ VerifyIdTokenSettled(s)
        \/ OrdersAdd(s)
        \/ OrdersGet(s)

\* a server restarted over a store of earlier orders, callers creating and
\* listing orders
SpecHistory == InitHistory /\ [][NextHistory]_vars

\* ---- the accounts workload: POST /signup and POST /login to the two drafts
\* that have them

ShoutedEmailA == <<" ", "A", "@", "B", " ">>
Secret1 == <<"s", "e", "c", "r", "e", "t">>
Wrong1 == <<"w", "r", "o", "n", "g", "1">>
TooShort == <<"a", "b", "c">>
NoAtEmail == <<"a", "b">>

SignupBodies ==
    { [NoBody EXCEPT !.email = EmailA, !.password = Password(Secret1)],
      [NoBody EXCEPT !.email = ShoutedEmailA, !.password = Password(Wrong1)],
      [NoBody EXCEPT !.email = EmailA, !.password = Password(TooShort)],
      [NoBody EXCEPT !.password = Password(Secret1)] }

LoginBodies ==
    { [NoBody EXCEPT !.email = EmailA, !.password = Password(Secret1)],
      [NoBody EXCEPT !.email = ShoutedEmailA, !.password = Password(Wrong1)],
      [NoBody EXCEPT !.email = EmailC, !.password = Password(Secret1)],
      [NoBody EXCEPT !.email = NoAtEmail, !.password = Password(Secret1)],
      [NoBody EXCEPT !.email = EmailA] }

ReceiveAccount(s) ==
    \/ \E b \in SignupBodies : Receive(s, [NoReq EXCEPT !.route = "POST /signup", !.body = b])
    \/ \E b \in LoginBodies : Receive(s, [NoReq EXCEPT !.route = "POST /login", !.body = b])

InitAccounts == InitConfig(DualDrafts) /\ InitRequests /\ InitStore

NextAccounts ==
    \E s \in 1..AccountReqs :
        \/ ReceiveAccount(s)
        \/ Signup(s)
        \/ SignupEmailRead(s)
        \/ SignupTxnRead(s)
        \/ SignupTxnCommit(s)
        \/ SignupFind(s)
        \/ SignupSet(s)
        \/ Login(s)
        \/ LoginEmailRead(s)
        \/ LoginUserRead(s)
        \/ LoginFind(s)

\* src/index.js and part_002, callers signing up and logging in concurrently
SpecAccounts == InitAccounts /\ [][NextAccounts]_vars

\* ================================================================== claims

\* the 'Bearer <token>' shape read most generously: the scheme name in any
\* case, at least one whitespace character, then a token of at least one
\* character
BearerShaped(h) ==
    \E k \in 1..Len(h) :
        /\ Len(Bearer) + k < Len(h)
        /\ ToLowerCase(SubSeq(h, 1, Len(Bearer))) = ToLowerCase(Bearer)
        /\ \A i \in (Len(Bearer) + 1)..(Len(Bearer) + k) : h[i] \in Whitespace

\* the slots whose request went to a route behind requireAuth
AuthSlots == {s \in Slots : pc[s] # "idle" /\ req[s].route \in Routes(draft) \cap Protected}

\* the token the draft's pattern takes from the header of slot s
TokenOf(s) == parseBearer(draft, HeaderValue(req[s])).token
HasToken(s) == parseBearer(draft, HeaderValue(req[s])).matched

\* C1: in every draft, a request whose Authorization header is absent or not of
\* the 'Bearer <token>' shape is answered 401 'Missing Bearer token', and at no
\* point has it caused a token verification or a call of next().
C1_MissingBearerRejected ==
    \A s \in AuthSlots :
        ~BearerShaped(HeaderValue(req[s])) =>
            /\ pc[s] \in {"received", "done"}
            /\ calls[s] = <<>>
            /\ pc[s] = "done" => res[s] = Fail(401, "Missing Bearer token", "")

C1_Witness ==
    \E s \in AuthSlots :
        /\ req[s].header.present
        /\ HeaderValue(req[s]) # <<>>
        /\ ~BearerShaped(HeaderValue(req[s]))
        /\ pc[s] = "done"
        /\ res[s].status = 401

\* a token the self-issued scheme of the draft accepts: the draft has a usable
\* signing secret and the token is an unexpired JWT signed with it
SelfIssuedValid(s) ==
    /\ HasToken(s)
    /\ JWT_SECRET # ""
    /\ draft = "part002" => SecretLen(JWT_SECRET) >= SecretMin
    /\ jwtVerify(TokenOf(s)).ok

\* C2 as claimed: in both dual-scheme drafts a token valid under the self-issued
\* scheme authenticates as 'jwt' and verifyIdToken is never attempted.
C2_Original ==
    \A s \in AuthSlots :
        (draft \in DualDrafts /\ SelfIssuedValid(s)) =>
            /\ \A i \in 1..Len(calls[s]) : calls[s][i] # "verifyIdToken"
            /\ pc[s] = "done" => (loc[s].authType = "jwt" /\ res[s].status = 200)

\* C2 amended: in part_002 a token valid under the self-issued scheme
\* authenticates as 'jwt' without any call of verifyIdToken; in src/index.js it
\* authenticates as 'jwt' too, but only after verifyIdToken was called first and
\* rejected it.
C2_SelfIssuedAccepted ==
    \A s \in AuthSlots :
        (draft \in DualDrafts /\ SelfIssuedValid(s)) =>
            /\ draft = "part002" =>
                  /\ \A i \in 1..Len(calls[s]) : calls[s][i] # "verifyIdToken"
                  /\ pc[s] # "received" => pc[s] = "done"
            /\ draft = "index" =>
                  /\ pc[s] # "received" => calls[s][1] = "verifyIdToken"
                  /\ pc[s] = "done" => calls[s] = <<"verifyIdToken", "jwt.verify", "next">>
            /\ pc[s] = "done" =>
                  /\ loc[s].authType = "jwt"
                  /\ loc[s].user.uid = jwtVerify(TokenOf(s)).uid
                  /\ res[s].status = 200

C2_Witness ==
    \E s \in AuthSlots :
        /\ draft = "part002"
        /\ SelfIssuedValid(s)
        /\ pc[s] = "done"
        /\ loc[s].authType = "jwt"
        /\ calls[s] = <<"jwt.verify", "next">>

\* a token neither scheme accepts
InvalidUnderBoth(s) ==
    /\ HasToken(s)
    /\ ~jwtVerify(TokenOf(s)).ok
    /\ ~verifyIdToken(TokenOf(s)).ok

\* C3 as claimed: in both dual-scheme drafts the 401 for a token invalid under
\* both schemes carries the provider scheme's error.
C3_Original ==
    \A s \in AuthSlots :
        (draft \in DualDrafts /\ InvalidUnderBoth(s) /\ pc[s] = "done"
            /\ res[s].status = 401) =>
            res[s].error = verifyIdToken(TokenOf(s)).err

\* C3 amended: the 401 for a token invalid under both schemes carries the error
\* of the scheme the draft tries last: in part_002 the provider's error (the JWT
\* error is swallowed), in src/index.js the JWT library's error (the provider's
\* error is swallowed).
C3_LastSchemeError ==
    \A s \in AuthSlots :
        (draft \in DualDrafts /\ InvalidUnderBoth(s) /\ pc[s] = "done") =>
            /\ draft = "part002" =>
                  res[s] = Fail(401, "Invalid or expired token",
                                verifyIdToken(TokenOf(s)).err)
            /\ (draft = "index" /\ res[s].status = 401) =>
                  /\ res[s].error = jwtVerify(TokenOf(s)).err
                  /\ res[s].error # verifyIdToken(TokenOf(s)).err
            /\ res[s].status \in {401, 500}
            /\ \A i \in 1..Len(calls[s]) : calls[s][i] # "next"

C3_Witness ==
    \E s \in AuthSlots :
        /\ draft = "index"
        /\ InvalidUnderBoth(s)
        /\ pc[s] = "done"
        /\ res[s].status = 401
        /\ res[s].error = "jwt malformed"

\* ---- orders of src/index.js

\* the slots whose POST /orders went past requireAuth
OrderSlots ==
    {s \in Slots : /\ req[s].route = "POST /orders"
                   /\ \E i \in 1..Len(calls[s]) : calls[s][i] = "next"}

\* the submitted list is not a non-empty array, or one of its elements breaks a rule
Malformed(items) ==
    \/ items.t # "array"
    \/ Len(items.a) = 0
    \/ \E i \in 1..Len(items.a) : ItemError(items.a[i]) # ""

\* the rule the request violates: that of the first element that breaks one
ViolatedRule(items) ==
    IF items.t # "array" \/ Len(items.a) = 0 THEN "items must be a non-empty array"
    ELSE LET i == CHOOSE k \in 1..Len(items.a) :
                      /\ ItemError(items.a[k]) # ""
                      /\ \A j \in 1..(k - 1) : ItemError(items.a[j]) = ""
         IN ItemError(items.a[i])

\* C5: in src/index.js, a POST /orders whose items are malformed in any position
\* never reaches orders.add, leaves the stored orders as they were, and is
\* answered 400 with the violated rule as its message.
C5_AllOrNothing ==
    \A s \in OrderSlots :
        (draft = "index" /\ Malformed(req[s].body.items)) =>
            /\ pc[s] = "done"
            /\ res[s] = Fail(400, ViolatedRule(req[s].body.items), "")
            /\ \A i \in 1..Len(calls[s]) : calls[s][i] # "orders.add"
            /\ orders = {}

C5_Witness ==
    \E s \in OrderSlots :
        /\ draft = "index"
        /\ req[s].body.items.t = "array"
        /\ Len(req[s].body.items.a) = 2
        /\ ItemError(req[s].body.items.a[1]) = ""
        /\ ItemError(req[s].body.items.a[2]) # ""
        /\ res[s].status = 400
        /\ orders = {}

\* the order a slot's request stored
StoredBy(s) == {o \in orders : o.id = res[s].orderId}

RECURSIVE SumOfProducts(_)
SumOfProducts(items) ==
    IF items = <<>> THEN JNum(0)
    ELSE JAdd(SumOfProducts(SubSeq(items, 1, Len(items) - 1)),
              JMul(items[Len(items)].price, items[Len(items)].qty))

\* C6: every order src/index.js stores has subtotal = sum of price*qty,
\* tax = subtotal*0.06 and total = subtotal + tax = subtotal*1.06; the order
\* stored for [{name:'Latte', price:4.5, qty:2}] has lineTotal 9.0, subtotal
\* 9.0, tax 0.54 and total 9.54.
C6_Pricing ==
    \A s \in OrderSlots : \A o \in StoredBy(s) :
        draft = "index" =>
            /\ o.subtotal = SumOfProducts(o.items)
            /\ o.tax = JMul(o.subtotal, Dec(6, 100))
            /\ o.total = JAdd(o.subtotal, o.tax)
            /\ o.total = JMul(o.subtotal, Dec(106, 100))
            /\ req[s].body.items = ItemArray(<<LatteItem>>) =>
                  /\ o.items = <<[name |-> Latte, qty |-> JInt(2),
                                  price |-> Dec(45, 10), lineTotal |-> JInt(9)]>>
                  /\ o.subtotal = JInt(9)
                  /\ o.tax = Dec(54, 100)
                  /\ o.total = Dec(954, 100)

C6_Witness ==
    \E s \in OrderSlots : \E o \in StoredBy(s) :
        /\ draft = "index"
        /\ Len(o.items) = 2
        /\ o.items[1].lineTotal = JInt(9)
        /\ o.subtotal.n > 9 * Scale

\* an element that is an object whose qty is one of the numbers qs
HasQty(it, qs) == it.t = "obj" /\ \E q \in qs : it.qty = JInt(q)
BadQty == {0, QtyMax + 1, -1}

\* C7 as claimed: every list holding an element with qty 0, 100 or -1 fails with
\* the error 'qty must be 1..99'.
C7_Original ==
    \A s \in OrderSlots :
        (/\ draft = "index"
         /\ req[s].body.items.t = "array"
         /\ \E i \in 1..Len(req[s].body.items.a) : HasQty(req[s].body.items.a[i], BadQty)) =>
            res[s] = Fail(400, "qty must be 1..99", "")

\* an object whose name resolves and that breaks no rule but, possibly, that of qty
NamedItem(it) == it.t = "obj" /\ ItemName(it) # <<>>

\* C7 amended: a list holding an element with qty 0, 100 or -1 is always
\* rejected; the error is 'qty must be 1..99' when that element has a name and
\* no element before it is invalid (otherwise the error is that of the first
\* invalid element).  A named element with qty 1 or 99 is accepted.
C7_QtyBounds ==
    \A s \in OrderSlots :
        LET items == req[s].body.items
            a == items.a
        IN (draft = "index" /\ items.t = "array") =>
            /\ \A i \in 1..Len(a) :
                  HasQty(a[i], BadQty) =>
                      /\ res[s].status = 400
                      /\ StoredBy(s) = {}
                      /\ (NamedItem(a[i]) /\ \A j \in 1..(i - 1) : ItemError(a[j]) = "")
                            => res[s] = Fail(400, "qty must be 1..99", "")
            /\ \A i \in 1..Len(a) :
                  (NamedItem(a[i]) /\ HasQty(a[i], {1, QtyMax})) => ItemError(a[i]) = ""
            /\ (Len(a) > 0 /\ \A i \in 1..Len(a) :
                    NamedItem(a[i]) /\ HasQty(a[i], {1, QtyMax})) =>
                  (pc[s] = "done" => res[s].status = 200 /\ StoredBy(s) # {})

C7_Witness ==
    \E s \in OrderSlots :
        /\ draft = "index"
        /\ Len(req[s].body.items.a) = 2
        /\ HasQty(req[s].body.items.a[1], {QtyMax})
        /\ HasQty(req[s].body.items.a[2], {QtyMax + 1})
        /\ res[s] = Fail(400, "qty must be 1..99", "")

\* C9: every order src/index.js stores has at least one item, and each item has
\* a non-empty trimmed name, an integer qty in 1..99, a finite price (0 when the
\* price sent was absent or not finite) and lineTotal = price*qty.
C9_StoredItemsNormalized ==
    \A s \in OrderSlots : \A o \in StoredBy(s) :
        draft = "index" =>
            /\ Len(o.items) >= 1
            /\ Len(o.items) = Len(req[s].body.items.a)
            /\ \A i \in 1..Len(o.items) :
                  LET it == o.items[i]
                      sent == Number(req[s].body.items.a[i].price)
                  IN /\ it.name # <<>>
                     /\ it.name = Trim(it.name)
                     /\ it.qty.t = "num"
                     /\ it.qty.n % Scale = 0
                     /\ it.qty.n >= Scale /\ it.qty.n <= QtyMax * Scale
                     /\ it.price.t = "num"
                     /\ it.price = (IF sent.t = "num" THEN sent ELSE JNum(0))
                     /\ it.lineTotal = JMul(it.price, it.qty)

C9_Witness ==
    \E s \in OrderSlots : \E o \in StoredBy(s) :
        /\ draft = "index"
        /\ Len(o.items) = 2
        /\ req[s].body.items.a[1].price = JInf
        /\ o.items[1].price = JNum(0)
        /\ req[s].body.items.a[2].name.s = PaddedTea
        /\ o.items[2].name = <<"T", "e", "a">>

\* ---- accounts

SignupSlots == {s \in Slots : req[s].route = "POST /signup" /\ pc[s] # "idle"}
LoginSlots == {s \in Slots : req[s].route = "POST /login" /\ pc[s] # "idle"}

\* a signup that src/index.js lets past its input and configuration checks
ValidSignup(s) ==
    /\ cleanEmail(req[s].body.email) # <<>>
    /\ req[s].body.password.t = "str"
    /\ Len(req[s].body.password.s) >= 6
    /\ JWT_SECRET # ""

\* the valid signups that carry the normalized email e
SignupsFor(e) == {s \in SignupSlots : ValidSignup(s) /\ cleanEmail(req[s].body.email) = e}
Succeeded(S) == {s \in S : pc[s] = "done" /\ res[s].status = 200}

\* C4: in src/index.js, of the valid concurrent signups with one normalized
\* email never two succeed; once all of them are answered exactly one has
\* succeeded, with a token and a uid no other account has, and every other one
\* was answered 409.
C4_OneSignupPerEmail ==
    draft = "index" =>
        \A e \in {cleanEmail(req[s].body.email) : s \in SignupSlots} :
            LET S == SignupsFor(e) IN
            /\ Cardinality(Succeeded(S)) <= 1
            /\ (S # {} /\ \A s \in S : pc[s] = "done") =>
                  /\ Cardinality(Succeeded(S)) = 1
                  /\ \A s \in S \ Succeeded(S) : res[s].status = 409
            /\ \A s \in Succeeded(S) :
                  /\ res[s].token.ok
                  /\ res[s].token.uid = res[s].uid
                  /\ res[s].email = e
                  /\ Cardinality({u \in users : u.uid = res[s].uid}) = 1
                  /\ \A u \in users : u.email = e => u.uid = res[s].uid

C4_Witness ==
    /\ draft = "index"
    /\ \E s1, s2 \in SignupSlots :
          /\ s1 # s2
          /\ ValidSignup(s1) /\ ValidSignup(s2)
          /\ req[s1].body.email # req[s2].body.email
          /\ cleanEmail(req[s1].body.email) = cleanEmail(req[s2].body.email)
          /\ res[s1].status = 200
          /\ res[s2] = Fail(409, "Signup failed", "Email already registered")

\* the accounts the deployed draft holds for an email, as [uid, passwordHash]
AccountsFor(e) ==
    IF draft = "index"
    THEN {[uid |-> u.uid, passwordHash |-> u.passwordHash] :
             u \in {x \in users : \E m \in userEmails : m.email = e /\ m.uid = x.uid}}
    ELSE {[uid |-> u.uid, passwordHash |-> u.passwordHash] :
             u \in {x \in auth_users : x.email = e}}

\* a login that gets as far as looking the account up: its input passes the
\* draft's validation (an email, with an '@' in part_002, and a password) and
\* the server is configured
LoginLooksUp(s) ==
    /\ cleanEmail(req[s].body.email) # <<>>
    /\ PasswordString(req[s].body.password) # <<>>
    /\ IF draft = "index" THEN JWT_SECRET # ""
       ELSE PROJECT_ID # "" /\ \E i \in 1..Len(req[s].body.email) : req[s].body.email[i] = "@"

UnknownEmail(s) == AccountsFor(cleanEmail(req[s].body.email)) = {}
WrongPassword(s) ==
    /\ AccountsFor(cleanEmail(req[s].body.email)) # {}
    /\ \A a \in AccountsFor(cleanEmail(req[s].body.email)) :
           a.passwordHash # bcryptHash(PasswordString(req[s].body.password))

\* C8: in src/index.js and part_002, a login with an unregistered email and a
\* login with a registered email and a wrong password, both past the input
\* validation of a configured server, are answered alike: both get 401 with the
\* one body 'Invalid email or password' and no error field, and any two such
\* logins have equal responses.
C8_LoginIndistinguishable ==
    /\ \A s \in LoginSlots :
          (pc[s] = "done" /\ LoginLooksUp(s) /\ (UnknownEmail(s) \/ WrongPassword(s))) =>
              res[s] = Fail(401, "Invalid email or password", "")
    /\ \A s1, s2 \in LoginSlots :
          (/\ pc[s1] = "done" /\ pc[s2] = "done"
           /\ LoginLooksUp(s1) /\ LoginLooksUp(s2)
           /\ UnknownEmail(s1) /\ WrongPassword(s2)) => res[s1] = res[s2]

C8_Witness ==
    \E s \in LoginSlots :
        /\ pc[s] = "done"
        /\ LoginLooksUp(s)
        /\ WrongPassword(s)
        /\ res[s].status = 401

\* ---- orders of every draft

PostSlots == {s \in Slots : req[s].route = "POST /orders" /\ StoredBy(s) # {}}
Totals(o) == <<o.subtotal, o.tax, o.total>>

\* C10 as claimed: in every draft two orders stored for the same items have the
\* same subtotal, tax and total, whatever totals the request bodies carried.
C10_Original ==
    \A s1, s2 \in PostSlots : \A o1 \in StoredBy(s1), o2 \in StoredBy(s2) :
        req[s1].body.items = req[s2].body.items => Totals(o1) = Totals(o2)

\* C10 amended: in src/index.js the stored subtotal, tax and total are derived
\* from the items and never taken from the body, so two requests with the same
\* items store the same three values; every other draft stores the body's
\* subtotal, tax and total as the caller sent them.
C10_TotalsDerivedOrSpread ==
    /\ \A s \in PostSlots : \A o \in StoredBy(s) :
          IF draft = "index"
          THEN /\ o.subtotal = SumOfProducts(o.items)
               /\ o.tax = JMul(o.subtotal, Dec(6, 100))
               /\ o.total = JAdd(o.subtotal, o.tax)
          ELSE Totals(o) = <<req[s].body.subtotal, req[s].body.tax, req[s].body.total>>
    /\ draft = "index" => C10_Original

C10_Witness ==
    /\ draft = "index"
    /\ \E s1, s2 \in PostSlots : \E o1 \in StoredBy(s1), o2 \in StoredBy(s2) :
          /\ req[s1].body.items = req[s2].body.items
          /\ req[s1].body.total # req[s2].body.total
          /\ req[s2].body.total.t = "num"
          /\ Totals(o1) = Totals(o2)
          /\ o1.total = Dec(954, 100)

\* ---- ownership of orders

\* the identity a bearer token stands for, by whichever scheme accepts it
CallerOf(s) ==
    LET t == SubSeq(HeaderValue(req[s]), Len(Bearer) + 2, Len(HeaderValue(req[s])))
    IN IF jwtVerify(t).ok THEN jwtVerify(t).uid ELSE verifyIdToken(t).uid

GetSlots == {s \in Slots : req[s].route = "GET /orders" /\ pc[s] = "done" /\ res[s].status = 200}

\* C11: in every draft, every stored order lies under users/{u}/orders of the
\* caller u whose request wrote it and carries uid = u, whatever uid the body
\* named; and a GET /orders answered to a caller u lists only orders stored
\* under users/{u}/orders.
C11_OrdersBelongToCaller ==
    /\ \A o \in orders :
          /\ o.uid = o.owner
          /\ \E s \in PostSlots : o \in StoredBy(s) /\ CallerOf(s) = o.owner
    /\ \A s \in GetSlots : \A i \in 1..Len(res[s].orders) :
          /\ res[s].orders[i] \in orders
          /\ res[s].orders[i].owner = CallerOf(s)
          /\ res[s].orders[i].uid = CallerOf(s)

C11_Witness ==
    /\ draft # "index"
    /\ \E s1 \in PostSlots, s2 \in GetSlots :
          /\ req[s1].body.uid # ""
          /\ req[s1].body.uid # CallerOf(s1)
          /\ CallerOf(s2) = req[s1].body.uid
          /\ StoredBy(s1) # {}
          /\ res[s2].orders = <<>>

\* ---- creation time and listing order

\* the orders of the collection a GET /orders of slot s reads that its answer
\* leaves out
Unlisted(s) ==
    {o \in orders : /\ o.owner = CallerOf(s)
                    /\ \A i \in 1..Len(res[s].orders) : res[s].orders[i] # o}

\* C12: in every draft the createdAt of a stored order is the commit time the
\* store assigned (later commits have later times, none lies in the future, a
\* createdAt of the body is never kept), and an answered GET /orders lists the
\* caller's orders latest commit first, at most 50 of them, leaving out only
\* orders committed after the ones it lists or, when it lists 50, before them.
C12_CommitOrder ==
    /\ \A o \in orders : o.createdAt >= 1 /\ o.createdAt < clock
    /\ \A o1, o2 \in orders : o1.id < o2.id <=> o1.createdAt < o2.createdAt
    /\ \A s \in GetSlots :
          LET L == res[s].orders IN
          /\ Len(L) <= 50
          /\ \A i, j \in 1..Len(L) :
                i < j => L[i].createdAt > L[j].createdAt /\ L[i].id > L[j].id
          /\ Len(L) > 0 =>
                \A o \in Unlisted(s) :
                    \/ o.id > L[1].id
                    \/ Len(L) = 50 /\ o.id < L[Len(L)].id

C12_Witness ==
    \E s1 \in PostSlots, s2 \in GetSlots :
        /\ req[s1].body.createdAt.t = "num"
        /\ CallerOf(s1) = CallerOf(s2)
        /\ Len(res[s2].orders) = 50
        /\ StoredBy(s1) = {res[s2].orders[1]}
        /\ Cardinality(Unlisted(s2)) = 2

\* ---- the display name of an item

NameRequired == Fail(400, "item name (or itemId) is required", "")

\* the text of a field after trimming, nothing when the field is absent
Trimmed(f) == IF f.present THEN Trim(f.s) ELSE <<>>

\* the requests whose items array has the object at position i as the only
\* element that could break a rule
OnlySuspect(s, i) ==
    /\ draft = "index"
    /\ req[s].body.items.t = "array"
    /\ i \in 1..Len(req[s].body.items.a)
    /\ req[s].body.items.a[i].t = "obj"
    /\ \A j \in 1..Len(req[s].body.items.a) : j # i => ItemError(req[s].body.items.a[j]) = ""

\* C13 as claimed: the name error is given exactly when name and itemId are
\* both empty after trimming.
C13_Original ==
    \A s \in OrderSlots : \A i \in 1..MaxItems :
        OnlySuspect(s, i) =>
            LET it == req[s].body.items.a[i] IN
            (res[s] = NameRequired) <=> (Trimmed(it.name) = <<>> /\ Trimmed(it.itemId) = <<>>)

\* C13 amended: the name is the name field when that is a non-empty string,
\* else the itemId field, and is trimmed only after this choice.  So an item
\* with a name that is non-empty after trimming is named by it; an item whose
\* name is absent or '' is named by its trimmed itemId and fails with 'item
\* name (or itemId) is required' when that is empty; and an item whose name is
\* whitespace-only fails with that error whatever its itemId.
C13_NameResolution ==
    \A s \in OrderSlots : \A i \in 1..MaxItems :
        OnlySuspect(s, i) =>
            LET it == req[s].body.items.a[i]
                whitespaceOnly == it.name.present /\ it.name.s # <<>> /\ Trim(it.name.s) = <<>>
                chosen == IF Trimmed(it.name) # <<>> THEN Trimmed(it.name)
                          ELSE Trimmed(it.itemId)
            IN /\ (res[s] = NameRequired) <=> (whitespaceOnly \/ chosen = <<>>)
               /\ \A o \in StoredBy(s) : o.items[i].name = chosen /\ ~whitespaceOnly

C13_Witness ==
    \E s \in OrderSlots : \E i \in 1..MaxItems :
        /\ OnlySuspect(s, i)
        /\ Trimmed(req[s].body.items.a[i].name) = <<>>
        /\ req[s].body.items.a[i].itemId.s # Trimmed(req[s].body.items.a[i].itemId)
        /\ \E o \in StoredBy(s) : o.items[i].name = Trimmed(req[s].body.items.a[i].itemId)

\* ---- what a failed authentication tells

\* a response without its error field
Blank(r) == [r EXCEPT !.error = ""]

\* the finished requests of a dual-scheme draft whose token fails both schemes
FailedBoth ==
    {s \in AuthSlots : draft \in DualDrafts /\ InvalidUnderBoth(s) /\ pc[s] = "done"}

\* the error texts of the JWT library, and those of the provider's verification
JwtErrorTexts == {"jwt expired", "invalid algorithm", "jwt malformed"}
ProviderErrorTexts ==
    {"Firebase ID token has no kid claim", "Decoding Firebase ID token failed"}

\* C14 as claimed: in both dual-scheme drafts, two tokens that fail both schemes
\* get responses equal apart from the provider's error, and no error text of
\* the JWT library appears.
C14_Original ==
    \A s1, s2 \in FailedBoth :
        /\ Blank(res[s1]) = Blank(res[s2])
        /\ res[s1].error \in ProviderErrorTexts \cup {""}
        /\ res[s1].error \notin JwtErrorTexts

\* C14 amended: two tokens that fail both schemes get the same status and the
\* same content apart from the error field, and no decoded claim appears.  In
\* part_002 the error field holds the provider's error and never the JWT
\* library's; in src/index.js it holds the JWT library's error and never the
\* provider's (and is absent from the 500 sent when no secret is set).
C14_FailureContent ==
    \A s1, s2 \in FailedBoth :
        /\ Blank(res[s1]) = Blank(res[s2])
        /\ res[s1].status \in {401, 500}
        /\ res[s1].user = NoUser /\ res[s1].token = NoClaims
        /\ res[s1].uid = "" /\ res[s1].email = <<>> /\ res[s1].authType = ""
        /\ draft = "part002" =>
              /\ res[s1].error = verifyIdToken(TokenOf(s1)).err
              /\ res[s1].error \in ProviderErrorTexts
              /\ res[s1].error \notin JwtErrorTexts
        /\ draft = "index" =>
              /\ res[s1].error = IF res[s1].status = 401
                                 THEN jwtVerify(TokenOf(s1)).err ELSE ""
              /\ res[s1].error \notin ProviderErrorTexts

C14_Witness ==
    \E s1, s2 \in FailedBoth :
        /\ draft = "part002"
        /\ TokenOf(s1) # TokenOf(s2)
        /\ jwtVerify(TokenOf(s1)).err # jwtVerify(TokenOf(s2)).err
        /\ res[s1].error # res[s2].error
        /\ Blank(res[s1]) = Blank(res[s2])

\* ---- normalizeItems applied to its own output

\* a normalized item handed back as an element of an items array: an object
\* with a string name, numbers qty and price, and no itemId
AsInput(n) == Item(Text(n.name), Absent, n.qty, n.price)
AsItemArray(items) == ItemArray([i \in 1..Len(items) |-> AsInput(items[i])])

\* C15: for every items array that normalizeItems accepts, normalizing its
\* output again is accepted too and gives, item by item, the same name, qty,
\* price and lineTotal (which is also what POST /orders stored).
C15_NormalizeIdempotent ==
    \A s \in OrderSlots :
        LET first == normalizeItems(req[s].body.items) IN
        (draft = "index" /\ first.error = "") =>
            LET second == normalizeItems(AsItemArray(first.items)) IN
            /\ second.error = ""
            /\ Len(second.items) = Len(first.items)
            /\ \A i \in 1..Len(first.items) :
                  /\ second.items[i].name = first.items[i].name
                  /\ second.items[i].qty = first.items[i].qty
                  /\ second.items[i].price = first.items[i].price
                  /\ second.items[i].lineTotal = first.items[i].lineTotal
            /\ \A o \in StoredBy(s) : o.items = second.items

C15_Witness ==
    \E s \in OrderSlots : \E o \in StoredBy(s) :
        /\ draft = "index"
        /\ Len(o.items) = 2
        /\ AsItemArray(o.items) # req[s].body.items
        /\ AsItemArray(o.items).a[1].name.s # req[s].body.items.a[1].name.s
        /\ AsItemArray(o.items).a[2].qty # req[s].body.items.a[2].qty
        /\ normalizeItems(AsItemArray(o.items)).items = o.items

\* ---- signup in part_002

\* C16: in part_002 two signups with the same normalized email never both
\* succeed, and auth_users never holds two accounts with the same email.
C16_AtomicSignup ==
    draft = "part002" =>
        /\ \A a1, a2 \in auth_users : a1.email = a2.email => a1 = a2
        /\ \A s1, s2 \in SignupSlots :
              (/\ s1 # s2
               /\ cleanEmail(req[s1].body.email) = cleanEmail(req[s2].body.email)
               /\ pc[s1] = "done" /\ pc[s2] = "done") =>
                  ~(res[s1].status = 200 /\ res[s2].status = 200)

\* ---- authentication without a signing secret

\* the requests to a dual-scheme draft run without JWT_SECRET whose token the
\* provider rejects
NoSecretProviderFails ==
    {s \in AuthSlots : /\ draft \in DualDrafts
                       /\ JWT_SECRET = ""
                       /\ HasToken(s)
                       /\ ~verifyIdToken(TokenOf(s)).ok}

\* C17 as claimed: such a request is answered 401 and never reaches its handler.
C17_Original ==
    \A s \in NoSecretProviderFails :
        /\ pc[s] = "done" => res[s].status = 401
        /\ \A i \in 1..Len(calls[s]) : calls[s][i] # "next"

\* C17 amended: such a request never reaches its handler; part_002 answers it
\* 401 'Invalid or expired token' with the provider's error, and src/index.js
\* answers it 500 'JWT_SECRET is missing on server ...'.
C17_NoSecretRejected ==
    \A s \in NoSecretProviderFails :
        /\ \A i \in 1..Len(calls[s]) : calls[s][i] # "next"
        /\ pc[s] = "done" =>
              res[s] = IF draft = "part002"
                       THEN Fail(401, "Invalid or expired token",
                                 verifyIdToken(TokenOf(s)).err)
                       ELSE Fail(500, NoSecretMsg, "")

C17_Witness ==
    \E s \in NoSecretProviderFails :
        /\ draft = "index"
        /\ jwtVerify(TokenOf(s)).ok
        /\ pc[s] = "done"
        /\ res[s].status = 500

\* ---- failed signups

\* the account records a signup wrote: those under the uid it generated
WrittenBy(s) ==
    {a \in users \cup auth_users : a.uid = loc[s].uid}
        \cup {m \in userEmails : m.uid = loc[s].uid}

\* C18: in src/index.js and part_002, a signup answered with a failure has
\* written no account record.
C18_FailedSignupWritesNothing ==
    \A s \in SignupSlots :
        (pc[s] = "done" /\ res[s].status # 200) => WrittenBy(s) = {}

\* ---- the email index of src/index.js

\* every userEmails record names a users record of the same email, no two users
\* records share an email, every users record is named by one userEmails record
EmailIndexConsistent ==
    /\ \A m \in userEmails :
           \E u \in users : u.uid = m.uid /\ u.email = m.email
    /\ \A u1, u2 \in users : u1.email = u2.email => u1 = u2
    /\ \A u \in users : Cardinality({m \in userEmails : m.uid = u.uid}) = 1

\* the signups answered 200 whose email and password the login l presents
SignedUpAs(l) ==
    {s \in SignupSlots :
        /\ pc[s] = "done" /\ res[s].status = 200
        /\ ValidSignup(s)
        /\ cleanEmail(req[s].body.email) = cleanEmail(req[l].body.email)
        /\ PasswordString(req[s].body.password) = PasswordString(req[l].body.password)}

\* a step of the login l that answers it
Answers(l) == pc[l] # "done" /\ pc'[l] = "done"

\* C19: in src/index.js the email index stays consistent under every
\* interleaving of signups and logins, and a login with the email and password
\* of a signup that has succeeded is answered 200 with that signup's uid.
C19_EmailIndex ==
    /\ [](draft = "index" => EmailIndexConsistent)
    /\ [][draft = "index" =>
            \A l \in LoginSlots : \A s \in SignedUpAs(l) :
                Answers(l) => /\ res'[l].status = 200
                              /\ res'[l].uid = res[s].uid
                              /\ res'[l].uid = loc[s].uid]_vars

C19_Witness ==
    /\ draft = "index"
    /\ users # {}
    /\ \E l \in LoginSlots : \E s \in SignedUpAs(l) :
           /\ pc[l] = "done" /\ res[l].status = 200
           /\ res[l].uid = res[s].uid
           /\ \E u \in users : u.uid = res[l].uid
====
